---------------------------- MODULE Spec2Model ----------------------------
(***************************************************************************)
(* Model of models/models.py: the model registry (register_model,          *)
(* load_model, _camel_case) and the forward methods of the four T5 encoder *)
(* heads, as far as they decide the loss, config.problem_type and the      *)
(* packaging of the result.                                                *)
(*                                                                         *)
(* Python strings are sequences of one-character strings, so that split,   *)
(* join, upper and slicing are computed as the code computes them.         *)
(***************************************************************************)
EXTENDS Integers, Sequences, FiniteSets, TLC

VARIABLES
  MODEL_REGISTRY,  \* the module-level dict: name -> class
  regLog,          \* history: every register_model(name)(cls) so far, in order
  ret,             \* the call in progress at the caller: what it was and what it gave
  config,          \* the configuration object the heads share
  heads,           \* the head instances constructed from config
  out,             \* the latest forward call and what it gave
  firstType,       \* history: the first value config.problem_type had other than None
  thr              \* concurrent forward calls of flat heads: one record per thread

vars == <<MODEL_REGISTRY, regLog, ret, config, heads, out, firstType, thr>>

---------------------------------------------------------------------------
(* Bounds of the model *)

MaxLen == 5        \* longest identifier given to load_model
MaxRegs == 1       \* register_model calls after the import-time ones
MaxNumLabels == 2  \* largest config.num_labels

---------------------------------------------------------------------------
(* Strings *)

Sigma == {"a", "_", ":", "/"}

RECURSIVE StringsUpTo(_)
StringsUpTo(n) ==
  IF n = 0 THEN {<<>>}
  ELSE LET shorter == StringsUpTo(n - 1)
       IN shorter \cup {Append(s, c) : s \in {t \in shorter : Len(t) = n - 1}, c \in Sigma}

Ids == StringsUpTo(MaxLen)

Contains(s, c) == \E i \in 1..Len(s) : s[i] = c

\* str.find(c) + 1, or 0
IndexOf(s, c) == IF Contains(s, c) THEN CHOOSE i \in 1..Len(s) : s[i] = c /\ \A j \in 1..(i-1) : s[j] # c ELSE 0

\* str.split(sep) for a one-character separator: always at least one piece
RECURSIVE split(_, _)
split(s, sep) ==
  LET i == IndexOf(s, sep)
  IN IF i = 0 THEN <<s>>
     ELSE <<SubSeq(s, 1, i - 1)>> \o split(SubSeq(s, i + 1, Len(s)), sep)

\* sep.join(parts)
RECURSIVE join(_, _)
join(sep, parts) ==
  IF Len(parts) = 0 THEN <<>>
  ELSE IF Len(parts) = 1 THEN parts[1]
  ELSE parts[1] \o <<sep>> \o join(sep, Tail(parts))

LowerCase == <<"a","b","c","d","e","f","g","h","i","j","k","l","m","n","o","p","q","r","s","t","u","v","w","x","y","z">>
UpperCase == <<"A","B","C","D","E","F","G","H","I","J","K","L","M","N","O","P","Q","R","S","T","U","V","W","X","Y","Z">>

\* str.upper() of one character
upper(c) ==
  IF \E i \in 1..Len(LowerCase) : LowerCase[i] = c
  THEN UpperCase[CHOOSE i \in 1..Len(LowerCase) : LowerCase[i] = c]
  ELSE c

---------------------------------------------------------------------------
(* Classes and the names registered at import time *)

Class(module, attr) == [module |-> module, attr |-> attr]
NoClass == Class(<<>>, <<>>)

THIS_MODULE == <<"m", "o", "d", "e", "l", "s">>

NAME_CRF ==
  << "T", "5", "E", "n", "c", "o", "d", "e", "r", "F", "o", "r", "E", "n", "t", "i", "t", "y", "R", "e", "c", "o", "g", "n", "i", "t", "i", "o", "n", "W", "i", "t", "h", "C", "R", "F" >>
NAME_COREF ==
  << "T", "5", "E", "n", "c", "o", "d", "e", "r", "F", "o", "r", "C", "o", "r", "e", "f", "e", "r", "e", "n", "c", "e", "R", "e", "s", "o", "l", "u", "t", "i", "o", "n", "F", "i", "r", "s", "t", "S", "u", "b", "m", "e", "a", "n", "O", "b", "j", "m", "e", "a", "n", "W", "i", "t", "h", "C", "R", "F" >>
NAME_MEAN ==
  << "T", "5", "E", "n", "c", "o", "d", "e", "r", "F", "o", "r", "S", "e", "q", "u", "e", "n", "c", "e", "C", "l", "a", "s", "s", "i", "f", "i", "c", "a", "t", "i", "o", "n", "M", "e", "a", "n", "S", "u", "b", "m", "e", "a", "n", "O", "b", "j", "m", "e", "a", "n" >>
NAME_FIRST ==
  << "T", "5", "E", "n", "c", "o", "d", "e", "r", "F", "o", "r", "S", "e", "q", "u", "e", "n", "c", "e", "C", "l", "a", "s", "s", "i", "f", "i", "c", "a", "t", "i", "o", "n", "F", "i", "r", "s", "t", "S", "u", "b", "m", "e", "a", "n", "O", "b", "j", "m", "e", "a", "n" >>

\* the four decorated class definitions, in the order the module body runs them
ImportTimeRegistrations ==
  << [name |-> NAME_CRF,   cls |-> Class(THIS_MODULE, NAME_CRF)],
     [name |-> NAME_COREF, cls |-> Class(THIS_MODULE, NAME_COREF)],
     [name |-> NAME_MEAN,  cls |-> Class(THIS_MODULE, NAME_MEAN)],
     [name |-> NAME_FIRST, cls |-> Class(THIS_MODULE, NAME_FIRST)] >>

\* a class of the caller's, as in the docstring of register_model
My_Model == Class(<<"a">>, <<"M", "y", "_", "M", "o", "d", "e", "l">>)

\* what a caller registers: short names (with and without delimiters), a name
\* already taken at import time; its own class or one of the module's
RegNames == {<<"a">>, <<"a", ":", "a">>, <<"/", "a">>, NAME_MEAN}
RegClasses == {My_Model, Class(THIS_MODULE, NAME_CRF)}

---------------------------------------------------------------------------
(* Results of a call *)

Idle == [op |-> "idle", arg |-> <<>>, cls |-> NoClass, env |-> "",
         exc |-> "", value |-> NoClass, imported |-> FALSE,
         module_name |-> <<>>, class_name |-> <<>>, message |-> <<>>]

Returned(v) == [Idle EXCEPT !.value = v]
Raised(e, msg) == [Idle EXCEPT !.exc = e, !.message = msg]

\* a registry that keeps the first registration of a name
SetItem_keep_first(registry, name, cls_) ==
  [n \in DOMAIN registry \cup {name} |-> IF n \in DOMAIN registry THEN registry[n] ELSE cls_]

\* MODEL_REGISTRY[name] = cls_
SetItem(registry, name, cls_) ==
  [n \in DOMAIN registry \cup {name} |-> IF n = name THEN cls_ ELSE registry[n]]

register_model(registry, name, cls_) ==
  [registry |-> SetItem(registry, name, cls_), result |-> Returned(cls_)]

\* str.upper() of a whole string
upper_all(w) == [i \in 1..Len(w) |-> upper(w[i])]

\* the loop with w.upper() in place of w[0].upper() + w[1:]
RECURSIVE camel_loop_upper_word(_, _, _)
camel_loop_upper_word(words, k, class_name) ==
  IF k > Len(words) THEN Returned(NoClass) @@ [str |-> class_name]
  ELSE LET w == words[k]
       IN IF Len(w) = 0 THEN Raised("IndexError", <<>>) @@ [str |-> <<>>]
          ELSE camel_loop_upper_word(words, k + 1, class_name \o upper_all(w))

\* the loop of _camel_case from a given word on
RECURSIVE camel_loop(_, _, _)
camel_loop(words, k, class_name) ==
  IF k > Len(words) THEN Returned(NoClass) @@ [str |-> class_name]
  ELSE LET w == words[k]
       IN IF Len(w) = 0 THEN Raised("IndexError", <<>>) @@ [str |-> <<>>]
          ELSE camel_loop(words, k + 1, class_name \o <<upper(w[1])>> \o SubSeq(w, 2, Len(w)))

_camel_case(name) == camel_loop(split(name, "_"), 1, <<>>)

\* importlib.import_module(module_name) then getattr(my_module, class_name);
\* env is what the interpreter finds: "found", "no_module" or "no_attr"
import_and_getattr(module_name, class_name, env) ==
  LET req == [Idle EXCEPT !.imported = TRUE, !.module_name = module_name, !.class_name = class_name]
  IN IF Len(module_name) = 0 THEN [req EXCEPT !.exc = "ValueError", !.message = <<"Empty module name">>]
     ELSE IF env = "no_module" THEN [req EXCEPT !.exc = "ModuleNotFoundError"]
     ELSE IF env = "no_attr" THEN [req EXCEPT !.exc = "AttributeError"]
     ELSE [req EXCEPT !.value = Class(module_name, class_name)]

\* the message with the format argument forgotten
UnsupportedMessage_unformatted(model_path) ==
  <<"unsupported model path: ", "{}", ". ", "you have to provide full path to model or ",
    "register the model using @register_model decorator">>

UnsupportedMessage(model_path) ==
  <<"unsupported model path: ">> \o model_path \o
  <<". ", "you have to provide full path to model or ",
    "register the model using @register_model decorator">>

\* a lookup that lets a locator-shaped name go on to the import
registered_short_name(registry, model_path) ==
  model_path \in DOMAIN registry /\ ~Contains(model_path, ":") /\ ~Contains(model_path, "/")

\* model_path in MODEL_REGISTRY
registered(registry, model_path) == model_path \in DOMAIN registry

load_model(registry, model_path, env) ==
  IF registered(registry, model_path) THEN Returned(registry[model_path])
  ELSE IF Contains(model_path, ":") THEN
    LET path_list == split(model_path, ":")
        module_name == path_list[1]
        class_name == _camel_case(path_list[2])
    IN IF class_name.exc # "" THEN Raised(class_name.exc, <<>>)
       ELSE import_and_getattr(module_name, class_name.str, env)
  ELSE IF Contains(model_path, "/") THEN
    LET path_list == split(model_path, ":")
        module_path == split(path_list[1], "/")
        module_name == join(".", module_path)
    IN IF Len(path_list) < 2 THEN Raised("IndexError", <<>>)
       ELSE LET class_name == _camel_case(path_list[2])
            IN IF class_name.exc # "" THEN Raised(class_name.exc, <<>>)
               ELSE import_and_getattr(module_name, class_name.str, env)
  ELSE Raised("ValueError", UnsupportedMessage(model_path))

---------------------------------------------------------------------------
(* The heads: configuration, construction, forward *)

CRF == "T5EncoderForEntityRecognitionWithCRF"
COREF == "T5EncoderForCoreferenceResolutionFirstSubmeanObjmeanWithCRF"
MEAN == "T5EncoderForSequenceClassificationMeanSubmeanObjmean"
FIRST == "T5EncoderForSequenceClassificationFirstSubmeanObjmean"

HeadClasses == {CRF, COREF, MEAN, FIRST}
FlatClasses == {MEAN, FIRST}

\* config.problem_type: the attribute may be missing, None, one of the three
\* values forward knows, or any other value a caller has stored there
Absent == "<no attribute>"
ProblemTypes == {"regression", "single_label_classification", "multi_label_classification"}
PresetTypes == ProblemTypes \cup {"unsupported"}

\* labels: None, or a tensor of one of these dtypes
LabelDtypes == {"torch.long", "torch.int", "torch.short", "torch.float"}
Labels == {"None"} \cup LabelDtypes

\* return_dict as passed: None, True or False
Flags == {"None", "True", "False"}

NoLoss == [fct |-> "None", input |-> "", target |-> ""]
LossCall(fct, input, target) == [fct |-> fct, input |-> input, target |-> target]

NoResult == [type |-> "", items |-> <<>>, loss |-> NoLoss, logits |-> "None",
             hidden_states |-> "None", attentions |-> "None"]

\* a ModelOutput subclass built from keyword arguments
ModelOutput(type, loss, logits, hidden_states, attentions) ==
  [type |-> type, items |-> <<>>, loss |-> loss, logits |-> logits,
   hidden_states |-> hidden_states, attentions |-> attentions]

\* a tuple of the values named by items, taken from vals
TupleOf(items, vals) ==
  LET has(k) == \E i \in 1..Len(items) : items[i] = k
  IN [type |-> "tuple", items |-> items,
      loss |-> IF has("loss") THEN vals.loss ELSE NoLoss,
      logits |-> IF has("logits") THEN vals.logits ELSE "None",
      hidden_states |-> IF has("hidden_states") THEN vals.hidden_states ELSE "None",
      attentions |-> IF has("attentions") THEN vals.attentions ELSE "None"]

\* the decoded label lists themselves, outside any tuple
BareLogits(vals) == [NoResult EXCEPT !.type = "list", !.items = <<"logits">>, !.logits = vals.logits]

\* if not hasattr(config, 'problem_type'): config.problem_type = None
init_problem_type(cfg) ==
  IF cfg.problem_type = Absent THEN [cfg EXCEPT !.problem_type = "None"] ELSE cfg

\* __init__ of any of the four heads: the instance keeps config.num_labels
init_head(cls, cfg) == [cls |-> cls, num_labels |-> init_problem_type(cfg).num_labels]

\* self.encoder(...): the T5 encoder stack gives a tuple of the values that are
\* not None when return_dict resolves to false, and a structured output otherwise
encoder(cfg, return_dict, output_hidden_states, output_attentions) ==
  LET rd == IF return_dict # "None" THEN return_dict = "True" ELSE cfg.use_return_dict
  IN [is_tuple |-> ~rd,
      items |-> <<"last_hidden_state">>
                \o (IF output_hidden_states THEN <<"hidden_states">> ELSE <<>>)
                \o (IF output_attentions THEN <<"attentions">> ELSE <<>>),
      hidden_states |-> IF output_hidden_states THEN "hidden_states" ELSE "None",
      attentions |-> IF output_attentions THEN "attentions" ELSE "None"]

\* outputs[k:] in Python's numbering
SliceFrom(items, k) == SubSeq(items, k + 1, Len(items))

\* the values a tuple item names, for the items that came out of the encoder
EncoderVals(outputs, loss, logits) ==
  [loss |-> loss, logits |-> logits, hidden_states |-> outputs.hidden_states,
   attentions |-> outputs.attentions]

\* T5EncoderForEntityRecognitionWithCRF.forward
forward_CRF(self, cfg, labels, return_dict, output_hidden_states, output_attentions) ==
  LET rd == IF return_dict # "None" THEN return_dict = "True" ELSE cfg.use_return_dict
      outputs == encoder(cfg, IF rd THEN "True" ELSE "False", output_hidden_states, output_attentions)
      loss == IF labels # "None" THEN LossCall("-1 * crf", "emissions", "labels") ELSE NoLoss
      logits == "crf.decode(emissions, mask)"
      vals == EncoderVals(outputs, loss, logits)
      output == <<"logits">> \o SliceFrom(outputs.items, 2)
  IN [config |-> cfg,
      exc |-> "",
      result |-> IF ~rd
                 THEN IF loss # NoLoss THEN TupleOf(<<"loss">> \o output, vals) ELSE BareLogits(vals)
                 ELSE ModelOutput("TokenClassifierOutput", loss, logits,
                                  outputs.hidden_states, outputs.attentions)]

\* T5EncoderForCoreferenceResolutionFirstSubmeanObjmeanWithCRF.forward
forward_COREF(self, cfg, labels, return_dict, output_hidden_states, output_attentions) ==
  LET rd == IF return_dict # "None" THEN return_dict = "True" ELSE cfg.use_return_dict
      outputs == encoder(cfg, IF rd THEN "True" ELSE "False", output_hidden_states, output_attentions)
      loss == IF labels # "None" THEN LossCall("-1 * crf", "emissions", "labels") ELSE NoLoss
      logits == "crf.decode(emissions, mask)"
      vals == EncoderVals(outputs, loss, logits)
      output == <<"logits">> \o SliceFrom(outputs.items, 2)
  IN [config |-> cfg,
      exc |-> "",
      result |-> IF ~rd
                 THEN IF loss # NoLoss THEN TupleOf(<<"loss">> \o output, vals) ELSE BareLogits(vals)
                 ELSE ModelOutput("TokenClassifierOutput", loss, logits,
                                  outputs.hidden_states, outputs.attentions)]

IsIntLabel(dtype) == dtype = "torch.long" \/ dtype = "torch.int"

\* an inference that takes only torch.long for integer labels
infer_long_only(num_labels, dtype) ==
  IF num_labels = 1 THEN "regression"
  ELSE IF num_labels > 1 /\ dtype = "torch.long" THEN "single_label_classification"
  ELSE "multi_label_classification"

\* MeanSubmeanObjmean: the value written to config.problem_type when it is None
infer_MEAN(num_labels, dtype) ==
  IF num_labels = 1 THEN "regression"
  ELSE IF num_labels > 1 /\ IsIntLabel(dtype) THEN "single_label_classification"
  ELSE "multi_label_classification"

\* FirstSubmeanObjmean: the same lines in the other class
infer_FIRST(num_labels, dtype) ==
  IF num_labels = 1 THEN "regression"
  ELSE IF num_labels > 1 /\ IsIntLabel(dtype) THEN "single_label_classification"
  ELSE "multi_label_classification"

\* an inference on every labelled call, whatever config.problem_type holds
problem_type_reinferred(self, cfg, labels) ==
  IF self.cls = MEAN THEN infer_MEAN(self.num_labels, labels) ELSE infer_FIRST(self.num_labels, labels)

\* config.problem_type after the check-then-write of a labelled call
problem_type_after(self, cfg, labels) ==
  IF cfg.problem_type = "None"
  THEN IF self.cls = MEAN THEN infer_MEAN(self.num_labels, labels) ELSE infer_FIRST(self.num_labels, labels)
  ELSE cfg.problem_type

\* the branch of the if/elif chain that problem_type selects, for one comparison
loss_branch(problem_type) ==
  IF problem_type = "regression"
    THEN LossCall("MSELoss", "logits.view(-1, num_labels)", "labels")
  ELSE IF problem_type = "single_label_classification"
    THEN LossCall("CrossEntropyLoss", "logits.view(-1, num_labels)", "labels.view(-1)")
  ELSE IF problem_type = "multi_label_classification"
    THEN LossCall("BCEWithLogitsLoss", "logits", "labels")
  ELSE NoLoss

\* the two flat heads' forward: the encoder gets return_dict as passed, and the
\* result is always built from outputs.hidden_states and outputs.attentions
forward_flat(self, cfg, labels, return_dict, output_hidden_states, output_attentions) ==
  LET outputs == encoder(cfg, return_dict, output_hidden_states, output_attentions)
      logits == "classifier(entities_concat)"
      cfg1 == IF labels # "None"
              THEN [cfg EXCEPT !.problem_type = problem_type_after(self, cfg, labels)]
              ELSE cfg
      loss == IF labels # "None" THEN loss_branch(cfg1.problem_type) ELSE NoLoss
  IN [config |-> cfg1,
      exc |-> IF outputs.is_tuple THEN "AttributeError" ELSE "",
      result |-> IF outputs.is_tuple THEN NoResult
                 ELSE ModelOutput("SequenceClassifierOutput", loss, logits,
                                  outputs.hidden_states, outputs.attentions)]

\* T5EncoderForSequenceClassificationMeanSubmeanObjmean.forward
forward_MEAN(self, cfg, labels, return_dict, output_hidden_states, output_attentions) ==
  forward_flat(self, cfg, labels, return_dict, output_hidden_states, output_attentions)

\* T5EncoderForSequenceClassificationFirstSubmeanObjmean.forward
forward_FIRST(self, cfg, labels, return_dict, output_hidden_states, output_attentions) ==
  forward_flat(self, cfg, labels, return_dict, output_hidden_states, output_attentions)

forward(self, cfg, labels, return_dict, output_hidden_states, output_attentions) ==
  IF self.cls = CRF THEN forward_CRF(self, cfg, labels, return_dict, output_hidden_states, output_attentions)
  ELSE IF self.cls = COREF THEN forward_COREF(self, cfg, labels, return_dict, output_hidden_states, output_attentions)
  ELSE IF self.cls = MEAN THEN forward_MEAN(self, cfg, labels, return_dict, output_hidden_states, output_attentions)
  ELSE forward_FIRST(self, cfg, labels, return_dict, output_hidden_states, output_attentions)

---------------------------------------------------------------------------
(* The heads as a state machine: one call at a time *)

Configs ==
  [problem_type : {Absent, "None"} \cup PresetTypes,
   num_labels : 1..MaxNumLabels,
   use_return_dict : BOOLEAN]

DefaultConfig == [problem_type |-> Absent, num_labels |-> 1, use_return_dict |-> TRUE]

NoCall == [op |-> "idle", self |-> [cls |-> "", num_labels |-> 0], labels |-> "None",
           return_dict |-> "None", output_hidden_states |-> FALSE,
           output_attentions |-> FALSE, before |-> Absent, exc |-> "", result |-> NoResult]

NoThread == [pc |-> "idle", self |-> [cls |-> "", num_labels |-> 0], labels |-> "None",
             saw_none |-> FALSE, wrote |-> FALSE, loss |-> NoLoss, exc |-> ""]

Threads == {"t1", "t2"}

\* the first value of problem_type that is a value: None and a missing attribute are not
FirstTypeAfter(first, cfg) ==
  IF first = "None" /\ cfg.problem_type \notin {Absent, "None"} THEN cfg.problem_type ELSE first

HeadsInit(cfg) ==
  /\ config = cfg
  /\ heads = {}
  /\ out = NoCall
  /\ firstType = FirstTypeAfter("None", cfg)
  /\ thr = [t \in Threads |-> NoThread]

Construct(cls) ==
  /\ out.op = "idle"
  /\ config' = init_problem_type(config)
  /\ heads' = heads \cup {init_head(cls, config)}
  /\ out' = [NoCall EXCEPT !.op = "__init__", !.self = init_head(cls, config),
                           !.before = config.problem_type]
  /\ UNCHANGED <<MODEL_REGISTRY, regLog, ret, firstType, thr>>

Forward(self, labels, return_dict, output_hidden_states, output_attentions) ==
  /\ out.op = "idle"
  /\ self \in heads
  /\ LET r == forward(self, config, labels, return_dict, output_hidden_states, output_attentions)
     IN /\ config' = r.config
        /\ firstType' = FirstTypeAfter(firstType, r.config)
        /\ out' = [op |-> "forward", self |-> self, labels |-> labels,
                   return_dict |-> return_dict,
                   output_hidden_states |-> output_hidden_states,
                   output_attentions |-> output_attentions,
                   before |-> config.problem_type, exc |-> r.exc, result |-> r.result]
  /\ UNCHANGED <<MODEL_REGISTRY, regLog, ret, heads, thr>>

---------------------------------------------------------------------------
(* The registry as a state machine *)

RECURSIVE RegistryAfter(_, _)
RegistryAfter(registry, regs) ==
  IF Len(regs) = 0 THEN registry
  ELSE RegistryAfter(register_model(registry, Head(regs).name, Head(regs).cls).registry, Tail(regs))

EmptyDict == [n \in {} |-> NoClass]

RegistryInit ==
  /\ MODEL_REGISTRY = RegistryAfter(EmptyDict, ImportTimeRegistrations)
  /\ regLog = ImportTimeRegistrations
  /\ ret = Idle

Envs == {"found", "no_module", "no_attr"}

\* a call reads the environment only when it gets to import_module
EnvRead(r, env) == IF r.imported /\ Len(r.module_name) > 0 THEN env ELSE ""

RegisterModel(name, cls_) ==
  /\ ret.op = "idle"
  /\ Len(regLog) < Len(ImportTimeRegistrations) + MaxRegs
  /\ LET r == register_model(MODEL_REGISTRY, name, cls_)
     IN /\ MODEL_REGISTRY' = r.registry
        /\ ret' = [r.result EXCEPT !.op = "register_model", !.arg = name, !.cls = cls_]
  /\ regLog' = Append(regLog, [name |-> name, cls |-> cls_])
  /\ UNCHANGED <<config, heads, out, firstType, thr>>

LoadModel(model_path, env) ==
  /\ ret.op = "idle"
  /\ LET r == load_model(MODEL_REGISTRY, model_path, env)
     IN /\ EnvRead(r, env) = env \/ env = "found"
        /\ ret' = [r EXCEPT !.op = "load_model", !.arg = model_path, !.env = EnvRead(r, env)]
  /\ UNCHANGED <<MODEL_REGISTRY, regLog, config, heads, out, firstType, thr>>

\* the caller takes the result (or the exception) and goes on
CallerContinues ==
  /\ ret.op # "idle"
  /\ ret' = Idle
  /\ UNCHANGED <<MODEL_REGISTRY, regLog, config, heads, out, firstType, thr>>

Init == RegistryInit /\ HeadsInit(DefaultConfig)

\* what a caller gives load_model: any short string, or a name it registered
LoadInputs == Ids \cup RegNames

Next ==
  \/ ret.op = "idle" /\ \E name \in RegNames, cls_ \in RegClasses : RegisterModel(name, cls_)
  \/ ret.op = "idle" /\ \E model_path \in LoadInputs, env \in Envs : LoadModel(model_path, env)
  \/ CallerContinues

Spec == Init /\ [][Next]_vars

\* the caller takes the result (or the exception) of the call and goes on
CallReturns ==
  /\ out.op # "idle"
  /\ out' = NoCall
  /\ UNCHANGED <<MODEL_REGISTRY, regLog, ret, config, heads, firstType, thr>>

InitHeads == RegistryInit /\ \E cfg \in Configs : HeadsInit(cfg)

NextHeads ==
  \/ out.op = "idle" /\ \E cls \in HeadClasses : Construct(cls)
  \/ out.op = "idle" /\ \E self \in heads, labels \in Labels, return_dict \in Flags,
        output_hidden_states \in BOOLEAN, output_attentions \in BOOLEAN :
        Forward(self, labels, return_dict, output_hidden_states, output_attentions)
  \/ CallReturns

SpecHeads == InitHeads /\ [][NextHeads]_vars

---------------------------------------------------------------------------
(* Concurrent forward calls of the two flat heads on one configuration: the
   lines from "if labels is not None" to the return, one read or write of
   config.problem_type per step *)

\* forward up to "loss = None": the encoder, the pooling, the classifier
ThreadCalls(t, self, labels) ==
  /\ thr[t].pc = "idle"
  /\ self \in heads
  /\ thr' = [thr EXCEPT ![t] = [NoThread EXCEPT !.self = self, !.labels = labels,
                                  !.pc = IF labels # "None" THEN "343" ELSE "361"]]
  /\ UNCHANGED <<MODEL_REGISTRY, regLog, ret, config, heads, out, firstType>>

\* if self.config.problem_type is None:
ThreadChecks(t) ==
  /\ thr[t].pc = "343"
  /\ thr' = [thr EXCEPT ![t].saw_none = (config.problem_type = "None"),
                        ![t].pc = IF config.problem_type = "None" THEN "344" ELSE "351"]
  /\ UNCHANGED <<MODEL_REGISTRY, regLog, ret, config, heads, out, firstType>>

\* self.config.problem_type = ...
ThreadWrites(t) ==
  /\ thr[t].pc = "344"
  /\ LET self == thr[t].self
         v == IF self.cls = MEAN THEN infer_MEAN(self.num_labels, thr[t].labels)
              ELSE infer_FIRST(self.num_labels, thr[t].labels)
     IN /\ config' = [config EXCEPT !.problem_type = v]
        /\ firstType' = FirstTypeAfter(firstType, [config EXCEPT !.problem_type = v])
  /\ thr' = [thr EXCEPT ![t].wrote = TRUE, ![t].pc = "351"]
  /\ UNCHANGED <<MODEL_REGISTRY, regLog, ret, heads, out>>

\* if / elif self.config.problem_type == value: one comparison of the chain
ThreadCompares(t, line, value, next) ==
  /\ thr[t].pc = line
  /\ thr' = IF config.problem_type = value
            THEN [thr EXCEPT ![t].loss = loss_branch(value), ![t].pc = "361"]
            ELSE [thr EXCEPT ![t].pc = next]
  /\ UNCHANGED <<MODEL_REGISTRY, regLog, ret, config, heads, out, firstType>>

\* return SequenceClassifierOutput(...)
ThreadReturns(t) ==
  /\ thr[t].pc = "361"
  /\ thr' = [thr EXCEPT ![t].pc = "done"]
  /\ UNCHANGED <<MODEL_REGISTRY, regLog, ret, config, heads, out, firstType>>

\* both flat heads have been constructed from the one configuration
InitRace ==
  /\ RegistryInit
  /\ \E cfg \in {c \in Configs : c.problem_type # Absent} :
       /\ config = cfg
       /\ heads = {init_head(MEAN, cfg), init_head(FIRST, cfg)}
       /\ firstType = FirstTypeAfter("None", cfg)
  /\ out = NoCall
  /\ thr = [t \in Threads |-> NoThread]

NextRace ==
  \/ \E t \in Threads, self \in heads, labels \in Labels : ThreadCalls(t, self, labels)
  \/ \E t \in Threads : ThreadChecks(t)
  \/ \E t \in Threads : ThreadWrites(t)
  \/ \E t \in Threads : ThreadCompares(t, "351", "regression", "354")
  \/ \E t \in Threads : ThreadCompares(t, "354", "single_label_classification", "357")
  \/ \E t \in Threads : ThreadCompares(t, "357", "multi_label_classification", "361")
  \/ \E t \in Threads : ThreadReturns(t)

SpecRace == InitRace /\ [][NextRace]_vars

---------------------------------------------------------------------------
(* What the claims speak of *)

\* how often name was registered, import time included
TimesRegistered(name) == Cardinality({i \in 1..Len(regLog) : regLog[i].name = name})

\* the class of the latest registration of name
LatestRegistered(name) ==
  regLog[CHOOSE i \in 1..Len(regLog) :
           /\ regLog[i].name = name
           /\ \A j \in (i+1)..Len(regLog) : regLog[j].name # name].cls

CountOf(s, c) == Cardinality({i \in 1..Len(s) : s[i] = c})

\* the text before and after the only ":" of s
BeforeColon(s) == SubSeq(s, 1, (CHOOSE i \in 1..Len(s) : s[i] = ":") - 1)
AfterColon(s) == SubSeq(s, (CHOOSE i \in 1..Len(s) : s[i] = ":") + 1, Len(s))

\* every underscore-separated word of name is non-empty
WordsNonEmpty(name) ==
  /\ Len(name) > 0
  /\ name[1] # "_"
  /\ name[Len(name)] # "_"
  /\ \A i \in 1..(Len(name) - 1) : ~(name[i] = "_" /\ name[i+1] = "_")

\* name without its underscores, the first character of each word upper-cased
RECURSIVE CamelFrom(_, _)
CamelFrom(name, i) ==
  IF i > Len(name) THEN <<>>
  ELSE (IF name[i] = "_" THEN <<>>
        ELSE IF i = 1 \/ name[i-1] = "_" THEN <<upper(name[i])>>
        ELSE <<name[i]>>) \o CamelFrom(name, i + 1)

CamelCaseOf(name) == CamelFrom(name, 1)

\* a/b/c as a.b.c
Dotted(path) == [i \in 1..Len(path) |-> IF path[i] = "/" THEN "." ELSE path[i]]

IsInfix(sub, s) == \E i \in 0..(Len(s) - Len(sub)) : SubSeq(s, i + 1, i + Len(sub)) = sub

Unregistered(id) == id \notin DOMAIN MODEL_REGISTRY

\* <module_path>:<snake_case_name>, one ":", a module path, non-empty words
IsLocator(id) ==
  /\ CountOf(id, ":") = 1
  /\ Len(BeforeColon(id)) > 0
  /\ WordsNonEmpty(AfterColon(id))

\* <a/b/c>:<snake_case_name>: a locator whose module path is slash-separated
IsSlashLocator(id) ==
  /\ IsLocator(id)
  /\ Contains(BeforeColon(id), "/")
  /\ ~Contains(AfterColon(id), "/")
  /\ \A i \in 1..Len(split(BeforeColon(id), "/")) : Len(split(BeforeColon(id), "/")[i]) > 0

Str_my_head == <<"m", "y", "_", "h", "e", "a", "d">>
Str_MyHead == <<"M", "y", "H", "e", "a", "d">>
Str_a_b_c == <<"a", "_", "b", "_", "c">>
Str_ABC == <<"A", "B", "C">>
Str_t5_model == <<"t", "5", "_", "m", "o", "d", "e", "l">>
Str_T5Model == <<"T", "5", "M", "o", "d", "e", "l">>

---------------------------------------------------------------------------
(* The claims about the registry, under Spec *)

\* C1: load_model(n) of a name n registered exactly once returns the class
\* registered under n, without an import and without an error, also when n
\* contains ":" or "/".
C1_RegisteredOnceIsReturned ==
  (ret.op = "load_model" /\ TimesRegistered(ret.arg) = 1) =>
    /\ ret.exc = ""
    /\ ret.value = LatestRegistered(ret.arg)
    /\ ~ret.imported

\* a registered name that looks like a locator has been loaded
C1_Witness ==
  /\ ret.op = "load_model"
  /\ TimesRegistered(ret.arg) = 1
  /\ Contains(ret.arg, ":")
  /\ ret.value = My_Model

\* C2: an unregistered <module_path>:<snake_case_name> makes load_model import
\* the module named before the ":" and look up the CamelCase of the name on it:
\* the attribute is returned when the interpreter finds both, and the import's
\* own failure is raised otherwise.
C2_LocatorImportsModuleAndCamelCase ==
  /\ (ret.op = "load_model" /\ Unregistered(ret.arg) /\ IsLocator(ret.arg)) =>
       /\ ret.imported
       /\ ret.module_name = BeforeColon(ret.arg)
       /\ ret.class_name = CamelCaseOf(AfterColon(ret.arg))
       /\ ret.env = "found" =>
            /\ ret.exc = ""
            /\ ret.value = Class(BeforeColon(ret.arg), CamelCaseOf(AfterColon(ret.arg)))
       /\ ret.env = "no_module" => ret.exc = "ModuleNotFoundError"
       /\ ret.env = "no_attr" => ret.exc = "AttributeError"
  /\ ret.op = "load_model" =>
       /\ _camel_case(Str_my_head).str = Str_MyHead
       /\ _camel_case(Str_a_b_c).str = Str_ABC
       /\ _camel_case(Str_t5_model).str = Str_T5Model

\* a locator with a name of two words has been resolved
C2_Witness ==
  /\ ret.op = "load_model"
  /\ Unregistered(ret.arg)
  /\ IsLocator(ret.arg)
  /\ Contains(AfterColon(ret.arg), "_")
  /\ ret.exc = ""

\* C3: an unregistered <a/b/c>:<snake_case_name> makes load_model import the
\* module a.b.c and look up the CamelCase of the name on it.
C3_SlashLocatorImportsDottedModule ==
  (ret.op = "load_model" /\ Unregistered(ret.arg) /\ IsSlashLocator(ret.arg)) =>
    /\ ret.imported
    /\ ret.module_name = Dotted(BeforeColon(ret.arg))
    /\ ret.class_name = CamelCaseOf(AfterColon(ret.arg))

\* C4: load_model of an identifier that is neither registered nor has ":" or
\* "/" raises ValueError with a message that holds the identifier and the
\* guidance, imports nothing and leaves the registry as it was.
C4_NoDelimiterIsInvalid ==
  [][(/\ ret.op = "idle"
      /\ ret'.op = "load_model"
      /\ ret'.arg \notin DOMAIN MODEL_REGISTRY
      /\ ~Contains(ret'.arg, ":")
      /\ ~Contains(ret'.arg, "/")) =>
       /\ ret'.exc = "ValueError"
       /\ IsInfix(<<"unsupported model path: ">> \o ret'.arg \o <<". ">>, ret'.message)
       /\ \E i \in 1..Len(ret'.message) : ret'.message[i] = "you have to provide full path to model or "
       /\ \E i \in 1..Len(ret'.message) : ret'.message[i] = "register the model using @register_model decorator"
       /\ ~ret'.imported
       /\ MODEL_REGISTRY' = MODEL_REGISTRY
       /\ regLog' = regLog]_vars

\* an identifier of several characters without delimiter has been refused
C4_Witness ==
  /\ ret.op = "load_model"
  /\ Unregistered(ret.arg)
  /\ ~Contains(ret.arg, ":")
  /\ ~Contains(ret.arg, "/")
  /\ Len(ret.arg) > 1
  /\ ret.exc = "ValueError"

\* C7: the registry maps exactly the names ever registered, each to the class
\* of its latest registration; register_model returns the class it was given;
\* a load_model, successful or failing, changes no entry.
C7_LastRegistrationWins ==
  /\ DOMAIN MODEL_REGISTRY = {regLog[i].name : i \in 1..Len(regLog)}
  /\ \A n \in DOMAIN MODEL_REGISTRY : MODEL_REGISTRY[n] = LatestRegistered(n)
  /\ ret.op = "register_model" => (ret.exc = "" /\ ret.value = ret.cls)

\* a name was registered twice, with different classes, and a load has failed since
C7_Witness ==
  /\ \E i, j \in 1..Len(regLog) :
        i < j /\ regLog[i].name = regLog[j].name /\ regLog[i].cls # regLog[j].cls
  /\ ret.op = "load_model"
  /\ ret.exc # ""

---------------------------------------------------------------------------
(* The claims about the heads, under SpecHeads and SpecRace *)

\* the policy as the specification words it
PolicyType(num_labels, dtype) ==
  CASE num_labels = 1 -> "regression"
    [] num_labels > 1 /\ dtype \in {"torch.long", "torch.int"} -> "single_label_classification"
    [] OTHER -> "multi_label_classification"

PolicyLoss(problem_type) ==
  CASE problem_type = "regression" ->
         [fct |-> "MSELoss", input |-> "logits.view(-1, num_labels)", target |-> "labels"]
    [] problem_type = "single_label_classification" ->
         [fct |-> "CrossEntropyLoss", input |-> "logits.view(-1, num_labels)", target |-> "labels.view(-1)"]
    [] problem_type = "multi_label_classification" ->
         [fct |-> "BCEWithLogitsLoss", input |-> "logits", target |-> "labels"]

LabelledFlatCall ==
  /\ out.op = "forward"
  /\ out.self.cls \in FlatClasses
  /\ out.labels # "None"

\* C5: once config.problem_type has a value, inferred or preset, no forward
\* call of any head changes it, whatever the label dtype, and a later labelled
\* call of a flat head computes its loss with the loss function of that value.
C5_FirstProblemTypeStays ==
  /\ firstType # "None" => config.problem_type = firstType
  /\ (LabelledFlatCall /\ out.before \in ProblemTypes /\ out.exc = "") =>
       /\ out.before = firstType
       /\ out.result.loss = PolicyLoss(firstType)

\* a later call with floating labels on a configuration that says single-label
C5_Witness ==
  /\ LabelledFlatCall
  /\ out.before = "single_label_classification"
  /\ out.labels = "torch.float"
  /\ out.self.num_labels > 1
  /\ out.exc = ""
  /\ out.result.loss.fct = "CrossEntropyLoss"

\* C6: a labelled forward call of a flat head that finds problem_type None
\* sets it by the policy: num_labels = 1 gives regression and MSE, num_labels > 1
\* with long or int labels single-label and cross-entropy over flattened logits
\* and labels, anything else multi-label and sigmoid cross-entropy unflattened;
\* the same for both heads.
C6_InferencePolicy ==
  (LabelledFlatCall /\ out.before = "None") =>
    /\ config.problem_type = PolicyType(out.self.num_labels, out.labels)
    /\ out.exc = "" => out.result.loss = PolicyLoss(PolicyType(out.self.num_labels, out.labels))

\* the first-token head has inferred single-label from torch.int labels
C6_Witness ==
  /\ LabelledFlatCall
  /\ out.self.cls = FIRST
  /\ out.before = "None"
  /\ out.labels = "torch.int"
  /\ out.self.num_labels > 1
  /\ out.exc = ""
  /\ out.result.loss.fct = "CrossEntropyLoss"

\* C8: a forward call of any head that returns carries a loss exactly when
\* labels were given, whatever config.problem_type holds.
C8_LossIffLabels ==
  (out.op = "forward" /\ out.exc = "") =>
    ((out.result.loss # NoLoss) <=> (out.labels # "None"))

\* the tuple the specification describes: loss if labels, logits, the extras asked for
DescribedItems ==
  (IF out.labels # "None" THEN <<"loss">> ELSE <<>>) \o <<"logits">>
  \o (IF out.output_hidden_states THEN <<"hidden_states">> ELSE <<>>)
  \o (IF out.output_attentions THEN <<"attentions">> ELSE <<>>)

\* the same call with return_dict=True
StructuredTwin ==
  forward(out.self, [config EXCEPT !.problem_type = out.before], out.labels, "True",
          out.output_hidden_states, out.output_attentions).result

\* C9: with return_dict=False every head returns the tuple (loss if labels,
\* logits, extras) holding the values the structured result holds.
C9_TupleHoldsSameValues ==
  (out.op = "forward" /\ out.return_dict = "False") =>
    /\ out.exc = ""
    /\ out.result.type = "tuple"
    /\ out.result.items = DescribedItems
    /\ out.result.loss = StructuredTwin.loss
    /\ out.result.logits = StructuredTwin.logits
    /\ out.result.hidden_states = StructuredTwin.hidden_states
    /\ out.result.attentions = StructuredTwin.attentions

\* C10: a labelled call that found problem_type None computes its loss under
\* another type than its own labels infer only when another call also found it
\* None and wrote the type of its own labels; and such an interleaving exists.
C10_MismatchOnlyByRace ==
  \A t \in Threads :
    (thr[t].pc = "done" /\ thr[t].labels # "None" /\ thr[t].saw_none) =>
      /\ thr[t].wrote
      /\ thr[t].loss # PolicyLoss(PolicyType(thr[t].self.num_labels, thr[t].labels)) =>
           \E u \in Threads \ {t} :
             /\ thr[u].saw_none
             /\ thr[u].wrote
             /\ PolicyType(thr[u].self.num_labels, thr[u].labels)
                  # PolicyType(thr[t].self.num_labels, thr[t].labels)

\* both calls saw None and wrote; the one with integer labels got the sigmoid loss
C10_Witness ==
  \E t \in Threads, u \in Threads :
    /\ t # u
    /\ thr[t].pc = "done" /\ thr[u].pc = "done"
    /\ thr[t].saw_none /\ thr[u].saw_none
    /\ thr[t].wrote /\ thr[u].wrote
    /\ thr[t].self.num_labels > 1 /\ thr[u].self.num_labels > 1
    /\ thr[t].labels = "torch.long" /\ thr[u].labels = "torch.float"
    /\ thr[t].loss.fct = "BCEWithLogitsLoss"

=============================================================================
